---- MODULE Spec2Model ----
(***************************************************************************)
(* A model of docs/apps.js, the TruthLayer front end: the check handler,   *)
(* the clear handler, the startup probe, the timeout wrapper and the       *)
(* rendering helpers.                                                      *)
(*                                                                         *)
(* Conventions.  Texts are TLA+ strings.  Four characters of the source    *)
(* are outside the ASCII range and are written here as "..." (ellipsis),   *)
(* "--" (em dash), "-" (en dash) and "'" (typographic apostrophe); the     *)
(* check mark of "Checked" is left out.  Every element looked up in boot() *)
(* is taken to exist, so each "if (els.x)" guard of the source is true.  A *)
(* JavaScript value is a record tagged by t; a number is kept in fixed     *)
(* point, n being the value times ScoreScale.  Spec is the page with its   *)
(* probe and its overlapping checks; SpecResolve is one check answered     *)
(* with every response and body of the model; SpecExtract is the check     *)
(* handler on every evidence text of the model.                            *)
(***************************************************************************)
EXTENDS Integers, Sequences, FiniteSets, TLC

\* ------------------------------------------------------------- constants

WORKER_BASE == "https://rapid-flower-be72truthlayer.truthlayer-ai.workers.dev"

CHECK_ENDPOINT == "/api/check"

FETCH_TIMEOUT_MS == 20000

PING_TIMEOUT_MS == 8000

RAW_SLICE == 2000

PING_SLICE == 800

SHORT_CLAIM == 12

\* ---------------------------------------------------------------- bounds

\* the number of check requests one behaviour issues
MaxChecks == 2

\* steps per unit of the fixed-point representation of a number
ScoreScale == 2

\* how far below 0 and above 100 the scores of the responses reach
ScoreMargin == 2

\* the most lines of an evidence text of SpecExtract
MaxLines == 3

\* time advances in steps of the check deadline
TickMs == FETCH_TIMEOUT_MS

\* the clock of a request is followed one step past the check deadline
MaxElapsed == FETCH_TIMEOUT_MS + TickMs

\* ---------------------------------------------------------- text helpers

IsSpace(c) == c \in {" ", "\n", "\t", "\r"}

RECURSIVE TrimStart(_)
TrimStart(s) ==
  IF s = "" THEN ""
  ELSE IF IsSpace(Head(s)) THEN TrimStart(Tail(s)) ELSE s

RECURSIVE TrimEnd(_)
TrimEnd(s) ==
  IF s = "" THEN ""
  ELSE IF IsSpace(SubSeq(s, Len(s), Len(s)))
       THEN TrimEnd(SubSeq(s, 1, Len(s) - 1)) ELSE s

\* String.prototype.trim
Trim(s) == TrimEnd(TrimStart(s))

\* String.prototype.slice(0, n)
Slice(s, n) == IF Len(s) <= n THEN s ELSE SubSeq(s, 1, n)

RECURSIVE Repeat(_, _)
Repeat(c, n) ==
  IF n = 0 THEN ""
  ELSE LET h == Repeat(c, n \div 2)
       IN h \o h \o (IF n % 2 = 1 THEN c ELSE "")

RECURSIVE Contains(_, _)
Contains(s, c) ==
  IF s = "" THEN FALSE
  ELSE IF Head(s) = c THEN TRUE ELSE Contains(Tail(s), c)

\* String.prototype.replace(/</g, "&lt;")
RECURSIVE EscapeLt(_)
EscapeLt(s) ==
  IF s = "" THEN ""
  ELSE (IF Head(s) = "<" THEN "&lt;" ELSE Head(s)) \o EscapeLt(Tail(s))

\* String.prototype.split(sep) for a separator of one character, cur
\* being the part read so far
RECURSIVE SplitOn(_, _, _)
SplitOn(s, sep, cur) ==
  LET at == {i \in 1..Len(s) : SubSeq(s, i, i) = sep}
  IN IF at = {} THEN <<cur \o s>>
     ELSE LET i == CHOOSE i \in at : \A j \in at : i <= j
          IN <<cur \o SubSeq(s, 1, i - 1)>>
               \o SplitOn(SubSeq(s, i + 1, Len(s)), sep, "")

\* .map(s => s.trim()).filter(Boolean)
RECURSIVE TrimmedParts(_)
TrimmedParts(parts) ==
  IF parts = <<>> THEN <<>>
  ELSE (IF Trim(Head(parts)) = "" THEN <<>> ELSE <<Trim(Head(parts))>>)
       \o TrimmedParts(Tail(parts))

\* Array.prototype.join(sep)
RECURSIVE Join(_, _)
Join(parts, sep) ==
  IF parts = <<>> THEN ""
  ELSE IF Len(parts) = 1 THEN Head(parts)
       ELSE Head(parts) \o sep \o Join(Tail(parts), sep)

StartsWithCI(s, lower, upper) ==
  /\ Len(s) >= Len(lower)
  /\ \A i \in 1..Len(lower) :
        SubSeq(s, i, i) \in {SubSeq(lower, i, i), SubSeq(upper, i, i)}

\* the length of the /https?:\/\//i prefix of s, 0 when s has none
SchemeLen(s) ==
  IF StartsWithCI(s, "https://", "HTTPS://") THEN 8
  ELSE IF StartsWithCI(s, "http://", "HTTP://") THEN 7
  ELSE 0

RECURSIVE TakeNonSpace(_)
TakeNonSpace(s) ==
  IF s = "" THEN ""
  ELSE IF IsSpace(Head(s)) THEN "" ELSE Head(s) \o TakeNonSpace(Tail(s))

\* line.match(/https?:\/\/[^\s]+/i): the first match, "" when there is none
RECURSIVE MatchUrl(_)
MatchUrl(line) ==
  IF line = "" THEN ""
  ELSE LET n == SchemeLen(line)
       IN IF n > 0 /\ Len(line) > n /\ ~IsSpace(SubSeq(line, n + 1, n + 1))
          THEN TakeNonSpace(line)
          ELSE MatchUrl(Tail(line))

InSeq(x, q) == \E i \in 1..Len(q) : q[i] = x

\* [...new Set(urls)]
RECURSIVE Dedupe(_, _)
Dedupe(q, acc) ==
  IF q = <<>> THEN acc
  ELSE Dedupe(Tail(q), IF InSeq(Head(q), acc) THEN acc ELSE Append(acc, Head(q)))

\* the loop of extractUrls over the trimmed, non-empty lines
RECURSIVE LineUrls(_)
LineUrls(lines) ==
  IF lines = <<>> THEN <<>>
  ELSE LET m == MatchUrl(Head(lines))
       IN (IF m = "" THEN <<>> ELSE <<m>>) \o LineUrls(Tail(lines))

\* extractUrls without the removal of duplicates
extractUrls_NoDedupe(text) ==
  IF text = "" THEN <<>>
  ELSE LineUrls(TrimmedParts(SplitOn(text, "\n", "")))

extractUrls(text) ==
  IF text = "" THEN <<>>
  ELSE Dedupe(LineUrls(TrimmedParts(SplitOn(text, "\n", ""))), <<>>)

\* new URL(u).hostname for an absolute http(s) URL; "" where the
\* constructor throws (the helper of renderCitations catches it)
RECURSIVE TakeHost(_)
TakeHost(s) ==
  IF s = "" THEN ""
  ELSE IF Head(s) \in {"/", "?", "#", ":"} THEN ""
       ELSE Head(s) \o TakeHost(Tail(s))

Hostname(u) ==
  LET n == SchemeLen(u)
      h == IF n = 0 THEN "" ELSE TakeHost(SubSeq(u, n + 1, Len(u)))
  IN IF h = "" \/ Contains(h, "<") \/ Contains(h, " ") THEN "" ELSE h

\* ----------------------------------------------------- JavaScript values

Undefined == [t |-> "undefined"]

Null == [t |-> "null"]

NaN == [t |-> "NaN"]

Num(n) == [t |-> "number", n |-> n]

\* the number written as the integer literal k
Whole(k) == Num(k * ScoreScale)

Str(s) == [t |-> "string", s |-> s]

Bool(b) == [t |-> "boolean", b |-> b]

Arr(a) == [t |-> "array", a |-> a]

Obj(o) == [t |-> "object", o |-> o]

IsNullish(v) == v.t \in {"undefined", "null"}

\* ToBoolean
Truthy(v) ==
  CASE v.t \in {"undefined", "null", "NaN"} -> FALSE
    [] v.t = "number" -> v.n # 0
    [] v.t = "string" -> v.s # ""
    [] v.t = "boolean" -> v.b
    [] OTHER -> TRUE

\* v?.k for the keys the handler reads: an own property of an object
\* parsed from JSON, undefined for every other value
OptGet(v, k) ==
  IF v.t = "object" /\ k \in DOMAIN v.o THEN v.o[k] ELSE Undefined

\* a ?? b
Coalesce(a, b) == IF IsNullish(a) THEN b ELSE a

IsDigits(s) == s # "" /\ \A i \in 1..Len(s) :
  SubSeq(s, i, i) \in {"0", "1", "2", "3", "4", "5", "6", "7", "8", "9"}

DigitVal(c) ==
  CASE c = "0" -> 0 [] c = "1" -> 1 [] c = "2" -> 2 [] c = "3" -> 3
    [] c = "4" -> 4 [] c = "5" -> 5 [] c = "6" -> 6 [] c = "7" -> 7
    [] c = "8" -> 8 [] c = "9" -> 9

RECURSIVE ParseDigits(_, _)
ParseDigits(s, acc) ==
  IF s = "" THEN acc
  ELSE ParseDigits(Tail(s), 10 * acc + DigitVal(Head(s)))

\* the fixed-point steps whose fraction is written as the decimal digit d
FractionSteps(d) == {k \in 0..(ScoreScale - 1) : (k * 10) \div ScoreScale = d}

\* StringToNumber for the texts of the model: blank is 0; digits, with an
\* optional sign and an optional fraction of one decimal, are their value;
\* every other text is NaN
StringToNumber(s) ==
  LET w == Trim(s)
      neg == w # "" /\ Head(w) = "-"
      u == IF neg THEN Tail(w) ELSE w
      parts == SplitOn(u, ".", "")
      d == IF Len(parts) = 2 /\ Len(parts[2]) = 1 /\ IsDigits(parts[2])
           THEN DigitVal(parts[2]) ELSE 0
      ok == /\ IsDigits(parts[1])
            /\ Len(parts) = 2 => (Len(parts[2]) = 1 /\ IsDigits(parts[2]))
            /\ Len(parts) <= 2
            /\ FractionSteps(d) # {}
      mag == ParseDigits(parts[1], 0) * ScoreScale
               + (CHOOSE k \in FractionSteps(d) : TRUE)
  IN IF w = "" THEN Whole(0)
     ELSE IF ok THEN Num(IF neg THEN 0 - mag ELSE mag) ELSE NaN

\* String(v) of a number that is an integer
IntText(n) == IF n < 0 THEN "-" \o ToString(0 - n) ELSE ToString(n)

\* String(v); a number that is no integer is written to one decimal
RECURSIVE JSString(_)
JSString(v) ==
  CASE v.t = "undefined" -> "undefined"
    [] v.t = "null" -> "null"
    [] v.t = "NaN" -> "NaN"
    [] v.t = "number" ->
         LET m == IF v.n < 0 THEN 0 - v.n ELSE v.n
         IN IF m % ScoreScale = 0 THEN IntText(v.n \div ScoreScale)
            ELSE (IF v.n < 0 THEN "-" ELSE "") \o ToString(m \div ScoreScale)
                 \o "." \o ToString(((m % ScoreScale) * 10) \div ScoreScale)
    [] v.t = "string" -> v.s
    [] v.t = "boolean" -> IF v.b THEN "true" ELSE "false"
    [] v.t = "array" ->
         IF v.a = <<>> THEN ""
         ELSE LET h == IF IsNullish(v.a[1]) THEN "" ELSE JSString(v.a[1])
              IN IF Len(v.a) = 1 THEN h
                 ELSE h \o "," \o JSString(Arr(Tail(v.a)))
    [] OTHER -> "[object Object]"

\* Number(v)
Number(v) ==
  CASE v.t = "undefined" -> NaN
    [] v.t = "null" -> Whole(0)
    [] v.t = "NaN" -> NaN
    [] v.t = "number" -> v
    [] v.t = "boolean" -> IF v.b THEN Whole(1) ELSE Whole(0)
    [] v.t = "string" -> StringToNumber(v.s)
    [] OTHER -> StringToNumber(JSString(v))

\* ------------------------------------------------------ response bodies

BodyHtml == "<html>oops</html>"

BodyLong == Repeat("x", RAW_SLICE + 1)

BodyError == "{\"error\":\"boom\"}"

BodyErrorRaw == "{\"error\":\"boom\",\"raw\":\"trace\"}"

BodyFull == "{\"score\":90,\"why\":[\"a<b\"],\"citations\":[{\"title\":\"T\",\"url\":\"https://a.example/x\",\"snippet\":\"s\"}]}"

BodyVerdict == "{\"verdict\":\"True\",\"badge\":\"Verified\",\"score\":72}"

BodyEmpty == "{}"

BodyNullCitation == "{\"score\":50,\"citations\":[null]}"

BodyConfidence == "{\"confidence\":70}"

BodyNullScore == "{\"score\":null,\"confidence\":70}"

BodyTextScore == "{\"score\":\"n/a\"}"

BodyBadgeOnly == "{\"badge\":\"Verified\",\"score\":72}"

BodyVerdictOnly == "{\"verdict\":\"True\",\"score\":90}"

BodyWhyEmpty == "{\"score\":50,\"why\":[]}"

BodyWhyText == "{\"score\":50,\"why\":\"because\"}"

BodyFalseError == "{\"error\":false,\"score\":50}"

BodyNumberTitle == "{\"citations\":[{\"title\":5}]}"

BodyMarkup == "{\"why\":[\"<img src=x>\"],\"citations\":[{\"title\":\"<i>T\",\"url\":\"https://a.example/<x\",\"snippet\":\"<s>\"},{\"url\":\"https://a<b.example/\"}]}"

BodyNull == "null"

\* the scores of the bodies that carry a score alone, in fixed-point steps:
\* from ScoreMargin below 0 to ScoreMargin above 100
ScoreSteps == ((0 - ScoreMargin) * ScoreScale)..((100 + ScoreMargin) * ScoreScale)

ScorePrefix == "{\"score\":"

\* the body {"score":x}, x being the number of n steps
ScoreBody(n) == ScorePrefix \o JSString(Num(n)) \o "}"

ScoreBodies == {ScoreBody(n) : n \in ScoreSteps}

\* the text between the prefix and the closing brace of a body
ScoreText(raw) == SubSeq(raw, Len(ScorePrefix) + 1, Len(raw) - 1)

\* raw is {"score":x} for a number text x
IsScoreBody(raw) ==
  /\ Len(raw) > Len(ScorePrefix) + 1
  /\ SubSeq(raw, 1, Len(ScorePrefix)) = ScorePrefix
  /\ SubSeq(raw, Len(raw), Len(raw)) = "}"
  /\ ScoreText(raw) = Trim(ScoreText(raw))
  /\ StringToNumber(ScoreText(raw)).t = "number"

\* the bodies with a fixed text
FixedBodies ==
  {BodyHtml, BodyLong, BodyError, BodyErrorRaw, BodyFull, BodyVerdict,
   BodyEmpty, BodyNullCitation, BodyConfidence, BodyNullScore, BodyTextScore,
   BodyBadgeOnly, BodyVerdictOnly, BodyWhyEmpty, BodyWhyText, BodyFalseError,
   BodyNumberTitle, BodyMarkup, BodyNull}

\* the texts a response body is drawn from
Bodies == FixedBodies \cup ScoreBodies

\* JSON.parse on the texts of Bodies: threw is TRUE where it raises
JSONParse(raw) ==
  CASE raw = BodyError ->
         [threw |-> FALSE, value |-> Obj([error |-> Str("boom")])]
    [] raw = BodyErrorRaw ->
         [threw |-> FALSE,
          value |-> Obj([error |-> Str("boom"), raw |-> Str("trace")])]
    [] raw = BodyFull ->
         [threw |-> FALSE,
          value |-> Obj([score |-> Whole(90),
                         why |-> Arr(<<Str("a<b")>>),
                         citations |-> Arr(<<Obj([title |-> Str("T"),
                                                  url |-> Str("https://a.example/x"),
                                                  snippet |-> Str("s")])>>)])]
    [] raw = BodyVerdict ->
         [threw |-> FALSE,
          value |-> Obj([verdict |-> Str("True"), badge |-> Str("Verified"),
                         score |-> Whole(72)])]
    [] raw = BodyEmpty ->
         [threw |-> FALSE, value |-> Obj([x \in {} |-> Undefined])]
    [] raw = BodyNullCitation ->
         [threw |-> FALSE,
          value |-> Obj([score |-> Whole(50), citations |-> Arr(<<Null>>)])]
    [] raw = BodyConfidence ->
         [threw |-> FALSE, value |-> Obj([confidence |-> Whole(70)])]
    [] raw = BodyNullScore ->
         [threw |-> FALSE,
          value |-> Obj([score |-> Null, confidence |-> Whole(70)])]
    [] raw = BodyTextScore ->
         [threw |-> FALSE, value |-> Obj([score |-> Str("n/a")])]
    [] raw = BodyBadgeOnly ->
         [threw |-> FALSE,
          value |-> Obj([badge |-> Str("Verified"), score |-> Whole(72)])]
    [] raw = BodyVerdictOnly ->
         [threw |-> FALSE,
          value |-> Obj([verdict |-> Str("True"), score |-> Whole(90)])]
    [] raw = BodyWhyEmpty ->
         [threw |-> FALSE,
          value |-> Obj([score |-> Whole(50), why |-> Arr(<<>>)])]
    [] raw = BodyWhyText ->
         [threw |-> FALSE,
          value |-> Obj([score |-> Whole(50), why |-> Str("because")])]
    [] raw = BodyFalseError ->
         [threw |-> FALSE,
          value |-> Obj([error |-> Bool(FALSE), score |-> Whole(50)])]
    [] raw = BodyNumberTitle ->
         [threw |-> FALSE,
          value |-> Obj([citations |-> Arr(<<Obj([title |-> Whole(5)])>>)])]
    [] raw = BodyMarkup ->
         [threw |-> FALSE,
          value |-> Obj([why |-> Arr(<<Str("<img src=x>")>>),
                         citations |->
                           Arr(<<Obj([title |-> Str("<i>T"),
                                      url |-> Str("https://a.example/<x"),
                                      snippet |-> Str("<s>")]),
                                 Obj([url |-> Str("https://a<b.example/")])>>)])]
    [] raw = BodyNull -> [threw |-> FALSE, value |-> Null]
    [] raw \notin FixedBodies /\ IsScoreBody(raw) ->
         [threw |-> FALSE,
          value |-> Obj([score |-> StringToNumber(ScoreText(raw))])]
    [] OTHER -> [threw |-> TRUE, value |-> Undefined]

\* the HTTP responses a request is answered with
Responses ==
  {[status |-> 200, statusText |-> "OK"],
   [status |-> 404, statusText |-> "Not Found"],
   [status |-> 500, statusText |-> "Internal Server Error"]}

\* the bodies and responses the requests of Spec are answered with
WireBodies == {BodyHtml, BodyFull, BodyNullCitation}

WireResponses == {r \in Responses : r.status \in {200, 500}}

NoResponse == [status |-> 0, statusText |-> ""]

\* Response.ok
ResOk(res) == res.status \in 200..299

\* the errors a rejected fetch or body read carries, and String(e) of them
AbortError == [name |-> "AbortError", message |-> "The user aborted a request."]

FetchTypeError == [name |-> "TypeError", message |-> "Failed to fetch"]

RenderTypeError ==
  [name |-> "TypeError", message |-> "Cannot read properties of null"]

ErrorText(e) == e.name \o ": " \o e.message

\* ------------------------------------------------------------- rendering

\* setText: String(text ?? "")
TextOf(v) == IF IsNullish(v) THEN "" ELSE JSString(v)

\* score >= k
AtLeast(score, k) == score.t = "number" /\ score.n >= k * ScoreScale

\* verdictFromScore with the bounds taken as exclusive
verdictFromScore_Exclusive(score) ==
  IF score.t = "number" /\ score.n > 85 * ScoreScale
  THEN [label |-> Str("Likely true"), badge |-> Str("Strong support")]
  ELSE IF score.t = "number" /\ score.n > 65 * ScoreScale
  THEN [label |-> Str("Mixed / uncertain"), badge |-> Str("Some support")]
  ELSE IF score.t = "number" /\ score.n > 40 * ScoreScale
  THEN [label |-> Str("Unclear"), badge |-> Str("Weak support")]
  ELSE [label |-> Str("Unclear / likely false"), badge |-> Str("Low support")]

verdictFromScore(score) ==
  IF AtLeast(score, 85) THEN [label |-> Str("Likely true"), badge |-> Str("Strong support")]
  ELSE IF AtLeast(score, 65) THEN [label |-> Str("Mixed / uncertain"), badge |-> Str("Some support")]
  ELSE IF AtLeast(score, 40) THEN [label |-> Str("Unclear"), badge |-> Str("Weak support")]
  ELSE [label |-> Str("Unclear / likely false"), badge |-> Str("Low support")]

\* Math.round
Round(v) ==
  IF v.t = "number"
  THEN Whole((2 * v.n + ScoreScale) \div (2 * ScoreScale)) ELSE NaN

\* Math.max(0, Math.min(100, Math.round(score)))
Pct(score) ==
  LET r == Round(score)
  IN IF r.t # "number" THEN NaN
     ELSE IF r.n > 100 * ScoreScale THEN Whole(100)
     ELSE IF r.n < 0 THEN Whole(0) ELSE r

Muted(text) == [kind |-> "muted", text |-> text, items |-> <<>>]

NoneBox == Muted("None")

\* EscapedOr without the replacement
EscapedOr_Raw(x, dflt) ==
  IF ~Truthy(x) THEN [threw |-> FALSE, text |-> dflt]
  ELSE IF x.t = "string" THEN [threw |-> FALSE, text |-> x.s]
  ELSE [threw |-> TRUE, text |-> ""]

\* (x || dflt).replace(/</g, "&lt;") of renderCitations
EscapedOr(x, dflt) ==
  IF ~Truthy(x) THEN [threw |-> FALSE, text |-> EscapeLt(dflt)]
  ELSE IF x.t = "string" THEN [threw |-> FALSE, text |-> EscapeLt(x.s)]
  ELSE [threw |-> TRUE, text |-> ""]

\* one element of the map of renderCitations, i counted from 1
Citation(c, i) ==
  IF IsNullish(c) THEN [threw |-> TRUE]
  ELSE LET title == EscapedOr(OptGet(c, "title"), "Source " \o ToString(i))
           url == EscapedOr(OptGet(c, "url"), "")
           snippet == EscapedOr(OptGet(c, "snippet"), "")
           u == OptGet(c, "url")
           host == IF u.t = "string" THEN Hostname(u.s) ELSE ""
       IN IF title.threw \/ url.threw \/ snippet.threw THEN [threw |-> TRUE]
          ELSE [threw |-> FALSE, title |-> title.text, url |-> url.text,
                host |-> host, snippet |-> snippet.text]

renderCitations(citations) ==
  IF Len(citations) = 0 THEN [threw |-> FALSE, html |-> NoneBox]
  ELSE LET items == [i \in 1..Len(citations) |-> Citation(citations[i], i)]
       IN IF \E i \in 1..Len(items) : items[i].threw
          THEN [threw |-> TRUE, html |-> NoneBox]
          ELSE [threw |-> FALSE,
                html |-> [kind |-> "citations", text |-> "", items |-> items]]

StateClass(state) == IF state \in {"ok", "error", "checking"} THEN state ELSE ""

setStatus(e, state, detail) ==
  [e EXCEPT !.apiPill = StateClass(state),
            !.apiStatus = StateClass(state),
            !.apiStatusText = IF detail = "" THEN state ELSE detail]

TextBox(text) == [kind |-> "text", text |-> text]

ListOf(items) == [kind |-> "list", items |-> items]

\* Hints with a claim of SHORT_CLAIM characters taken as short
Hints_Inclusive(claim, evidenceUrls) ==
  LET h1 == IF Len(evidenceUrls) = 0
            THEN <<"No evidence links provided -- add 1-2 credible sources.">>
            ELSE <<>>
      h2 == IF Len(claim) <= SHORT_CLAIM
            THEN <<"Claim is short -- add who/what/when/where details.">>
            ELSE <<>>
  IN IF h1 \o h2 = <<>>
     THEN <<"No explanation returned -- backend may be in minimal mode.">>
     ELSE h1 \o h2

\* the fallback suggestions of the why list
Hints(claim, evidenceUrls) ==
  LET h1 == IF Len(evidenceUrls) = 0
            THEN <<"No evidence links provided -- add 1-2 credible sources.">>
            ELSE <<>>
      h2 == IF Len(claim) < SHORT_CLAIM
            THEN <<"Claim is short -- add who/what/when/where details.">>
            ELSE <<>>
  IN IF h1 \o h2 = <<>>
     THEN <<"No explanation returned -- backend may be in minimal mode.">>
     ELSE h1 \o h2

\* ----------------------------------------------------------------- state

\* the texts the user types into the claim and the evidence inputs
ClaimTexts == {"  ", " Sky is blue ", "Sky is blue.", "The sky is blue today."}

EvidenceTexts ==
  {"", "see https://a.example/x\nno link here\nhttps://a.example/x again\nhttps://b.example/y"}

\* the lines the evidence texts of SpecExtract are made of
EvidenceLines ==
  {"", "no link here", "see https://a.example/x", "https://a.example/x again",
   "https://b.example/y", " HTTP://c.example/z https://b.example/y ",
   "http:// x"}

\* the texts of 1 to k of these lines
RECURSIVE LineTexts(_)
LineTexts(k) ==
  IF k = 1 THEN EvidenceLines
  ELSE LET shorter == LineTexts(k - 1)
       IN shorter \cup {t \o "\n" \o l : t \in shorter, l \in EvidenceLines}

EvidenceLineTexts == LineTexts(MaxLines)

\* the data-example attributes of the example buttons
Examples == {"Sky is blue | https://a.example/x, https://b.example/y"}

\* the claim texts the user types in Spec, where a claim that is not blank
\* comes from an example button
BlankTexts == {t \in ClaimTexts : Trim(t) = ""}

\* the body texts the probe is answered with
PingTexts == {BodyHtml}

\* what index.html puts into an element before any handler has written it
PageText == "(index.html)"

VARIABLES
  els,      \* the elements boot() looks up: input values, classes and contents
  checks,   \* the check requests issued so far, in the order of their clicks
  ping      \* the startup probe

vars == <<els, checks, ping>>

\* a request: pc is "fetch" while fetch() is awaited, "body" while
\* res.text() is awaited and "done" once its handler has run to its end;
\* timer is TRUE while the setTimeout of fetchWithTimeout is pending
Request(claim, evidenceUrls) ==
  [pc |-> "fetch", timer |-> TRUE, elapsed |-> 0, res |-> NoResponse,
   claim |-> claim, evidenceUrls |-> evidenceUrls]

Done == [pc |-> "done", timer |-> FALSE, elapsed |-> 0, res |-> NoResponse,
         claim |-> "", evidenceUrls |-> <<>>]

\* boot() up to the first await of the probe
Init ==
  /\ els = [claimInput |-> "", evidenceInput |-> "",
            apiPill |-> "checking", apiStatus |-> "checking",
            apiStatusText |-> "API: checking...",
            resultTitle |-> PageText, resultBadge |-> PageText,
            scoreLabel |-> PageText, scoreBar |-> PageText,
            scorePct |-> PageText,
            whyList |-> [kind |-> "page", items |-> <<>>],
            citationsBox |-> [kind |-> "page", text |-> "", items |-> <<>>],
            debugBox |-> TextBox(PageText)]
  /\ checks = <<>>
  /\ ping = Request("", <<>>)

\* the state of the status indicator
Status == IF els.apiStatus = "" THEN "idle" ELSE els.apiStatus

\* ------------------------------------------------- the handler's branches

\* ClearedEls without the reset of the score text
ClearedEls_KeepsScore(e) ==
  setStatus([e EXCEPT !.claimInput = "", !.evidenceInput = "",
                      !.resultTitle = "--", !.resultBadge = "",
                      !.scoreLabel = "Confidence", !.scoreBar = "0%",
                      !.whyList = ListOf(<<>>),
                      !.citationsBox = NoneBox, !.debugBox = TextBox("")],
            "idle", "API: not checked")

\* the clear handler
ClearedEls(e) ==
  setStatus([e EXCEPT !.claimInput = "", !.evidenceInput = "",
                      !.resultTitle = "--", !.resultBadge = "",
                      !.scoreLabel = "Confidence", !.scoreBar = "0%",
                      !.scorePct = "0%", !.whyList = ListOf(<<>>),
                      !.citationsBox = NoneBox, !.debugBox = TextBox("")],
            "idle", "API: not checked")

\* UI: checking state
ShowChecking(e) ==
  [setStatus(e, "checking", "Checking...")
     EXCEPT !.resultTitle = "Checking...", !.resultBadge = "",
            !.scoreBar = "0%", !.scorePct = "--",
            !.whyList = [kind |-> "muted", items |-> <<"Working...">>],
            !.citationsBox = Muted("Loading..."),
            !.debugBox = TextBox("")]

\* the !res.ok branch
ShowHttpError(e, res, raw) ==
  [setStatus(e, "error", "API error (" \o ToString(res.status) \o ")")
     EXCEPT !.resultTitle = "Error",
            !.resultBadge = "HTTP " \o ToString(res.status),
            !.whyList = ListOf(<<"Backend returned HTTP " \o ToString(res.status) \o ".",
                                 "Most common cause: wrong route or method (needs <b>POST "
                                   \o CHECK_ENDPOINT \o "</b>).">>),
            !.citationsBox = NoneBox,
            !.debugBox = TextBox("[HTTP " \o ToString(res.status) \o "] "
                                 \o res.statusText \o "\n\nRAW:\n"
                                 \o Slice(raw, RAW_SLICE))]

\* ShowBadResponse without the slice of the raw text
ShowBadResponse_Untruncated(e, data, raw) ==
  LET r == OptGet(data, "raw")
      shown == IF Truthy(r) THEN JSString(r) ELSE raw
  IN [setStatus(e, "error", "Bad response")
        EXCEPT !.resultTitle = "Error", !.resultBadge = "Bad response",
               !.whyList = ListOf(<<"Backend responded, but payload wasn't usable JSON.",
                                    "See Debug for raw response.">>),
               !.citationsBox = NoneBox,
               !.debugBox = TextBox("[BAD JSON]\n" \o shown)]

\* the data?.error branch
ShowBadResponse(e, data, raw) ==
  LET r == OptGet(data, "raw")
      shown == IF Truthy(r) THEN JSString(r) ELSE raw
  IN [setStatus(e, "error", "Bad response")
        EXCEPT !.resultTitle = "Error", !.resultBadge = "Bad response",
               !.whyList = ListOf(<<"Backend responded, but payload wasn't usable JSON.",
                                    "See Debug for raw response.">>),
               !.citationsBox = NoneBox,
               !.debugBox = TextBox("[BAD JSON]\n" \o Slice(shown, RAW_SLICE))]

\* ShowFetchError without the reset of the citation area
ShowFetchError_KeepsCitations(e, err) ==
  LET msg == IF err.name = "AbortError" THEN "Request timed out"
             ELSE "Failed to fetch"
  IN [setStatus(e, "error", msg)
        EXCEPT !.resultTitle = "Error", !.resultBadge = msg,
               !.whyList = ListOf(<<"Frontend couldn't reach the Worker.",
                                    "Check WORKER_BASE in <code>docs/app.js</code>.",
                                    "Confirm Worker is deployed + route <b>POST "
                                      \o CHECK_ENDPOINT \o "</b> exists.">>),
               !.debugBox = TextBox("[FETCH ERROR]\n" \o ErrorText(err)
                                    \o "\n\nWORKER_BASE=" \o WORKER_BASE)]

\* the catch block
ShowFetchError(e, err) ==
  LET msg == IF err.name = "AbortError" THEN "Request timed out"
             ELSE "Failed to fetch"
  IN [setStatus(e, "error", msg)
        EXCEPT !.resultTitle = "Error", !.resultBadge = msg,
               !.whyList = ListOf(<<"Frontend couldn't reach the Worker.",
                                    "Check WORKER_BASE in <code>docs/app.js</code>.",
                                    "Confirm Worker is deployed + route <b>POST "
                                      \o CHECK_ENDPOINT \o "</b> exists.">>),
               !.citationsBox = NoneBox,
               !.debugBox = TextBox("[FETCH ERROR]\n" \o ErrorText(err)
                                    \o "\n\nWORKER_BASE=" \o WORKER_BASE)]

\* the rendering of a usable payload; threw is TRUE where a statement of
\* it raises, els being the elements as written up to that statement
ShowResult(e, claim, evidenceUrls, data) ==
  LET score == Number(Coalesce(OptGet(data, "score"),
                               Coalesce(OptGet(data, "confidence"), Whole(0))))
      v == IF Truthy(OptGet(data, "verdict"))
           THEN [label |-> OptGet(data, "verdict"),
                 badge |-> IF Truthy(OptGet(data, "badge"))
                           THEN OptGet(data, "badge") ELSE Str("")]
           ELSE verdictFromScore(score)
      pct == JSString(Pct(score)) \o "%"
      whyV == OptGet(data, "why")
      why == IF whyV.t = "array" THEN whyV.a ELSE <<>>
      items == IF Len(why) = 0 THEN Hints(claim, evidenceUrls)
               ELSE [i \in 1..Len(why) |-> EscapeLt(JSString(why[i]))]
      citV == OptGet(data, "citations")
      cit == renderCitations(IF citV.t = "array" THEN citV.a ELSE <<>>)
      e1 == [setStatus(e, "ok", "Checked")
               EXCEPT !.resultTitle = TextOf(v.label),
                      !.resultBadge = IF Truthy(v.badge) THEN TextOf(v.badge) ELSE "",
                      !.scoreBar = pct, !.scorePct = pct,
                      !.scoreLabel = "Confidence",
                      !.whyList = ListOf(items)]
  IN IF cit.threw THEN [threw |-> TRUE, els |-> e1]
     ELSE [threw |-> FALSE,
           els |-> [e1 EXCEPT !.citationsBox = cit.html,
                              !.debugBox =
                                [kind |-> "json",
                                 endpoint |-> WORKER_BASE \o CHECK_ENDPOINT,
                                 sent |-> [claim |-> claim, evidenceUrls |-> evidenceUrls],
                                 received |-> data]]]

\* checkClaim after res.text(): the parsed body, or the sentinel
ParsedBody(raw) ==
  LET p == JSONParse(raw)
  IN IF p.threw
     THEN Obj([error |-> Str("Bad response (not JSON)"), raw |-> Str(raw)])
     ELSE p.value

\* ResolveCheck with the payload rule applied before the status rule
ResolveCheck_PayloadFirst(e, claim, evidenceUrls, res, raw) ==
  LET data == ParsedBody(raw)
  IN IF Truthy(OptGet(data, "error")) THEN ShowBadResponse(e, data, raw)
     ELSE IF ~ResOk(res) THEN ShowHttpError(e, res, raw)
     ELSE LET r == ShowResult(e, claim, evidenceUrls, data)
          IN IF r.threw THEN ShowFetchError(r.els, RenderTypeError) ELSE r.els

\* the check handler from the return of checkClaim to its end
ResolveCheck(e, claim, evidenceUrls, res, raw) ==
  LET data == ParsedBody(raw)
  IN IF ~ResOk(res) THEN ShowHttpError(e, res, raw)
     ELSE IF Truthy(OptGet(data, "error")) THEN ShowBadResponse(e, data, raw)
     ELSE LET r == ShowResult(e, claim, evidenceUrls, data)
          IN IF r.threw THEN ShowFetchError(r.els, RenderTypeError) ELSE r.els

\* --------------------------------------------------------------- actions

\* the example handler's reading of a data-example attribute
ExampleParts(example) ==
  LET parts == SplitOn(example, "|", "")
      c == Trim(parts[1])
      urls == IF Len(parts) >= 2 THEN Trim(parts[2]) ELSE ""
      list == TrimmedParts(SplitOn(urls, ",", ""))
  IN [c |-> c, urls |-> urls, text |-> Join(list, "\n")]

\* ExampleParts, Trim and extractUrls on the values the inputs take,
\* evaluated once
ExampleTable == [example \in Examples |-> ExampleParts(example)]

ClaimValues ==
  {""} \cup ClaimTexts \cup {ExampleTable[example].c : example \in Examples}

EvidenceValues ==
  {""} \cup EvidenceTexts \cup EvidenceLineTexts
    \cup {ExampleTable[example].text : example \in Examples}

TrimTable == [t \in ClaimValues |-> Trim(t)]

UrlTable == [t \in EvidenceValues |-> extractUrls(t)]

Pending(r) == r.pc # "done"

Min(a, b) == IF a < b THEN a ELSE b

\* the user edits the claim input
TypeClaim(t) ==
  /\ t # els.claimInput
  /\ els' = [els EXCEPT !.claimInput = t]
  /\ UNCHANGED <<checks, ping>>

\* the user edits the evidence input
TypeEvidence(t) ==
  /\ t # els.evidenceInput
  /\ els' = [els EXCEPT !.evidenceInput = t]
  /\ UNCHANGED <<checks, ping>>

\* a click on an example button
ClickExample(example) ==
  LET p == ExampleTable[example]
  IN /\ els' = [els EXCEPT
                  !.claimInput = IF p.c # "" THEN p.c ELSE @,
                  !.evidenceInput = IF p.urls # "" THEN p.text ELSE @]
     /\ els' # els
     /\ UNCHANGED <<checks, ping>>

\* a click on clearBtn
ClickClear ==
  /\ els' = ClearedEls(els)
  /\ UNCHANGED <<checks, ping>>

\* ClickCheck without the validation of the claim
ClickCheck_Unvalidated ==
  LET claim == TrimTable[els.claimInput]
      evidenceUrls == UrlTable[els.evidenceInput]
  IN /\ Len(checks) < MaxChecks
     /\ els' = ShowChecking(els)
     /\ checks' = Append(checks, Request(claim, evidenceUrls))
     /\ UNCHANGED ping

\* a click on checkBtn, up to the await of checkClaim
ClickCheck ==
  LET claim == TrimTable[els.claimInput]
      evidenceUrls == UrlTable[els.evidenceInput]
  IN IF claim = ""
     THEN /\ els' = setStatus(els, "error", "Enter a claim first.")
          /\ UNCHANGED <<checks, ping>>
     ELSE /\ Len(checks) < MaxChecks
          /\ els' = ShowChecking(els)
          /\ checks' = Append(checks, Request(claim, evidenceUrls))
          /\ UNCHANGED ping

\* CheckResponse without the clearTimeout of the finally block
CheckResponse_KeepsTimer(i, res) ==
  /\ checks[i].pc = "fetch"
  /\ checks' = [checks EXCEPT ![i].pc = "body", ![i].res = res]
  /\ UNCHANGED <<els, ping>>

\* fetchWithTimeout of request i returns the response: the finally block
\* clears the timer, and checkClaim goes on to await res.text()
CheckResponse(i, res) ==
  /\ checks[i].pc = "fetch"
  /\ checks' = [checks EXCEPT ![i].pc = "body", ![i].timer = FALSE, ![i].res = res]
  /\ UNCHANGED <<els, ping>>

\* the body of request i has been read: the handler runs to its end
CheckBody(i, raw) ==
  /\ checks[i].pc = "body"
  /\ els' = ResolveCheck(els, checks[i].claim, checks[i].evidenceUrls,
                         checks[i].res, raw)
  /\ checks' = [checks EXCEPT ![i] = Done]
  /\ UNCHANGED ping

\* fetch of request i rejects: the connection failed before a response
CheckNetworkError(i) ==
  /\ checks[i].pc = "fetch"
  /\ els' = ShowFetchError(els, FetchTypeError)
  /\ checks' = [checks EXCEPT ![i] = Done]
  /\ UNCHANGED ping

\* res.text() of request i rejects: the connection failed during the body
CheckBodyError(i) ==
  /\ checks[i].pc = "body"
  /\ els' = ShowFetchError(els, FetchTypeError)
  /\ checks' = [checks EXCEPT ![i] = Done]
  /\ UNCHANGED ping

\* the timer of request i fires: controller.abort() rejects what the
\* request awaits with an AbortError
CheckTimeout(i) ==
  /\ checks[i].timer
  /\ checks[i].elapsed >= FETCH_TIMEOUT_MS
  /\ Pending(checks[i])
  /\ els' = ShowFetchError(els, AbortError)
  /\ checks' = [checks EXCEPT ![i] = Done]
  /\ UNCHANGED ping

\* ShowPing without the test of ping.ok
ShowPing_IgnoresStatus(e, res, text) == setStatus(e, "ok", "API: reachable")

\* the probe after pingWorker has returned
ShowPing(e, res, text) ==
  IF ResOk(res) THEN setStatus(e, "ok", "API: reachable")
  ELSE [setStatus(e, "error", "API: unreachable (" \o ToString(res.status) \o ")")
          EXCEPT !.debugBox = TextBox("[PING] " \o ToString(res.status) \o "\n"
                                      \o Slice(text, PING_SLICE))]

\* ShowPingError with the state of the clear handler
ShowPingError_Idle(e, err) ==
  [setStatus(e, "idle", "API: unreachable")
     EXCEPT !.debugBox = TextBox("[PING ERROR]\n" \o ErrorText(err))]

\* the catch block of the probe
ShowPingError(e, err) ==
  [setStatus(e, "error", "API: unreachable")
     EXCEPT !.debugBox = TextBox("[PING ERROR]\n" \o ErrorText(err))]

PingResponse(res) ==
  /\ ping.pc = "fetch"
  /\ ping' = [ping EXCEPT !.pc = "body", !.timer = FALSE, !.elapsed = 0,
                          !.res = res]
  /\ UNCHANGED <<els, checks>>

PingBody(text) ==
  /\ ping.pc = "body"
  /\ els' = ShowPing(els, ping.res, text)
  /\ ping' = Done
  /\ UNCHANGED checks

\* res.text() of the probe rejects: .catch(() => "")
PingBodyError ==
  /\ ping.pc = "body"
  /\ els' = ShowPing(els, ping.res, "")
  /\ ping' = Done
  /\ UNCHANGED checks

PingNetworkError ==
  /\ ping.pc = "fetch"
  /\ els' = ShowPingError(els, FetchTypeError)
  /\ ping' = Done
  /\ UNCHANGED checks

PingTimeout ==
  /\ ping.timer
  /\ ping.elapsed >= PING_TIMEOUT_MS
  /\ Pending(ping)
  /\ els' = ShowPingError(els, AbortError)
  /\ ping' = Done
  /\ UNCHANGED checks

\* a timer that is due runs before time advances further
TimerDue ==
  \/ ping.timer /\ ping.elapsed >= PING_TIMEOUT_MS
  \/ \E i \in 1..Len(checks) :
       checks[i].timer /\ checks[i].elapsed >= FETCH_TIMEOUT_MS

\* the clock of a pending check request, which saturates at MaxElapsed
Aged(r) ==
  IF Pending(r) THEN [r EXCEPT !.elapsed = Min(r.elapsed + TickMs, MaxElapsed)]
  ELSE r

\* the clock of the probe, which is followed while its timer is pending
AgedPing(r) ==
  IF r.timer THEN [r EXCEPT !.elapsed = Min(r.elapsed + TickMs, MaxElapsed)]
  ELSE r

\* TickMs milliseconds pass
Tick ==
  /\ ~TimerDue
  /\ ping' = AgedPing(ping)
  /\ checks' = [i \in 1..Len(checks) |-> Aged(checks[i])]
  /\ <<ping', checks'>> # <<ping, checks>>
  /\ UNCHANGED els

Next ==
  \/ \E t \in BlankTexts : TypeClaim(t)
  \/ \E example \in Examples : ClickExample(example)
  \/ ClickClear
  \/ ClickCheck
  \/ \E i \in 1..Len(checks) : \E res \in WireResponses : CheckResponse(i, res)
  \/ \E i \in 1..Len(checks) : \E raw \in WireBodies : CheckBody(i, raw)
  \/ \E i \in 1..Len(checks) : CheckNetworkError(i)
  \/ \E i \in 1..Len(checks) : CheckBodyError(i)
  \/ \E i \in 1..Len(checks) : CheckTimeout(i)
  \/ \E res \in WireResponses : PingResponse(res)
  \/ \E text \in PingTexts : PingBody(text)
  \/ PingBodyError
  \/ PingNetworkError
  \/ PingTimeout
  \/ Tick

Spec == Init /\ [][Next]_vars

\* one check request with every response and body of the model: the page
\* after the probe has resolved and a claim has been submitted
InitResolve ==
  \E c \in {t \in ClaimTexts : Trim(t) # ""} : \E e \in EvidenceTexts :
    /\ els = ShowChecking(
               [claimInput |-> c, evidenceInput |-> e,
                apiPill |-> "ok", apiStatus |-> "ok",
                apiStatusText |-> "API: reachable",
                resultTitle |-> PageText, resultBadge |-> PageText,
                scoreLabel |-> PageText, scoreBar |-> PageText,
                scorePct |-> PageText,
                whyList |-> [kind |-> "page", items |-> <<>>],
                citationsBox |-> [kind |-> "page", text |-> "", items |-> <<>>],
                debugBox |-> TextBox(PageText)])
    /\ checks = <<Request(Trim(c), extractUrls(e))>>
    /\ ping = Done

NextResolve ==
  \/ \E t \in ClaimTexts : TypeClaim(t)
  \/ \E t \in EvidenceTexts : TypeEvidence(t)
  \/ \E i \in 1..Len(checks) : \E res \in Responses : CheckResponse(i, res)
  \/ \E i \in 1..Len(checks) : \E raw \in Bodies : CheckBody(i, raw)
  \/ \E i \in 1..Len(checks) : CheckNetworkError(i)
  \/ \E i \in 1..Len(checks) : CheckBodyError(i)
  \/ \E i \in 1..Len(checks) : CheckTimeout(i)
  \/ Tick

SpecResolve == InitResolve /\ [][NextResolve]_vars

\* the check handler up to its request, on every evidence text of
\* EvidenceLineTexts: the page after the probe has resolved, with a claim
\* and the evidence typed in
InitExtract ==
  \E t \in EvidenceLineTexts :
    /\ els = [claimInput |-> "The sky is blue today.", evidenceInput |-> t,
              apiPill |-> "ok", apiStatus |-> "ok",
              apiStatusText |-> "API: reachable",
              resultTitle |-> PageText, resultBadge |-> PageText,
              scoreLabel |-> PageText, scoreBar |-> PageText,
              scorePct |-> PageText,
              whyList |-> [kind |-> "page", items |-> <<>>],
              citationsBox |-> [kind |-> "page", text |-> "", items |-> <<>>],
              debugBox |-> TextBox(PageText)]
    /\ checks = <<>>
    /\ ping = Done

NextExtract == ClickCheck

SpecExtract == InitExtract /\ [][NextExtract]_vars

\* ---------------------------------------------------------------- claims

\* what the result area shows
ResultArea ==
  <<els.resultTitle, els.resultBadge, els.scoreBar, els.scorePct,
    els.whyList, els.citationsBox>>

\* the status and the result area
Display == <<els.apiStatus, els.apiStatusText, ResultArea>>

\* the handler of check request i runs to its end in this step
Resolves(i) == Pending(checks[i]) /\ ~Pending(checks'[i])

CheckResolves == \E i \in 1..Len(checks) : Resolves(i)

PingResolves == Pending(ping) /\ ~Pending(ping')

\* C1: a check request that resolves after a request initiated later than
\* it has resolved does not change the displayed status and result, so that
\* once both have resolved the display is the one of the later request.
C1_LastInitiatedDecides ==
  [][\A i \in 1..Len(checks) :
       (Resolves(i) /\ \E j \in (i + 1)..Len(checks) : ~Pending(checks[j]))
         => Display' = Display]_vars

\* C2: no check request is still unresolved after its 20000 ms deadline,
\* whether it awaits the response or the body.
C2_NoCheckPastDeadline ==
  \A i \in 1..Len(checks) :
    Pending(checks[i]) => checks[i].elapsed <= FETCH_TIMEOUT_MS

\* C3: a click on check with a claim that is blank after trimming issues no
\* request and sets the status to error with "Enter a claim first."; and
\* every request in flight carries a non-empty trimmed claim.
C3_BlankClaimNeverSent ==
  /\ [][(Trim(els.claimInput) = "" /\ ClickCheck)
          => /\ checks' = checks
             /\ Status' = "error"
             /\ els'.apiStatusText = "Enter a claim first."]_vars
  /\ [](\A i \in 1..Len(checks) :
          Pending(checks[i])
            => checks[i].claim # "" /\ Trim(checks[i].claim) = checks[i].claim)

C3_Witness ==
  /\ els.claimInput = "  "
  /\ els.apiStatusText = "Enter a claim first."
  /\ \E i \in 1..Len(checks) : checks[i].pc = "fetch"

\* the edges of the state machine as the specification draws it
SpecEdges ==
  {<<"idle", "checking">>, <<"checking", "ok">>, <<"checking", "error">>,
   <<"ok", "checking">>, <<"error", "checking">>,
   <<"ok", "idle">>, <<"error", "idle">>}

\* C4 as stated: the status changes only along the edges of SpecEdges.
C4_OnlySpecEdges == [][Status' # Status => <<Status, Status'>> \in SpecEdges]_vars

\* C4 as amended: the status changes to checking only when a check with a
\* non-empty claim is issued, to idle only by the clear handler, to ok only
\* when a check or the probe resolves, and to error only when one of them
\* resolves or a blank claim is refused; the state it changes from is free.
C4_StatusChangesByCause ==
  [][Status' # Status =>
       /\ Status' = "checking" =>
            /\ Len(checks') = Len(checks) + 1
            /\ checks'[Len(checks')].claim # ""
       /\ Status' = "idle" => els' = ClearedEls(els)
       /\ Status' = "ok" => CheckResolves \/ PingResolves
       /\ Status' = "error" =>
            \/ CheckResolves
            \/ PingResolves
            \/ /\ Trim(els.claimInput) = ""
               /\ els'.apiStatusText = "Enter a claim first."]_vars

\* an edge outside SpecEdges has been taken: the page was cleared while a
\* check was in flight, and the check then failed
C4_Witness ==
  /\ Status = "error"
  /\ els.claimInput = ""
  /\ els.apiStatusText = "Request timed out"
  /\ \E i \in 1..Len(checks) : ~Pending(checks[i])

\* C5: from the idle state the status and the result area change only by
\* a click on check, whatever resolves in the meantime.
C5_ClearedStaysIdle ==
  [][Status = "idle" =>
       \/ Status' = "idle" /\ ResultArea' = ResultArea
       \/ Len(checks') = Len(checks) + 1
       \/ els'.apiStatusText = "Enter a claim first."]_vars

\* the values the clear handler writes
IdleEls ==
  [claimInput |-> "", evidenceInput |-> "", apiPill |-> "", apiStatus |-> "",
   apiStatusText |-> "API: not checked", resultTitle |-> "--",
   resultBadge |-> "", scoreLabel |-> "Confidence", scoreBar |-> "0%",
   scorePct |-> "0%", whyList |-> [kind |-> "list", items |-> <<>>],
   citationsBox |-> [kind |-> "muted", text |-> "None", items |-> <<>>],
   debugBox |-> [kind |-> "text", text |-> ""]]

\* C6: a click on clear, in any state, leaves every element at the fixed
\* value of IdleEls and the requests untouched, so a second click changes
\* nothing.
C6_ClearIsFixedReset ==
  [][ClickClear => els' = IdleEls /\ UNCHANGED <<checks, ping>>]_vars

\* the page has been cleared while a check awaited its body
C6_Witness ==
  /\ els = IdleEls
  /\ \E i \in 1..Len(checks) : checks[i].pc = "body"

\* C7: a check whose response has a non-successful status ends in the error
\* state with the status code in the status text and in the badge, the
\* title "Error", the HTTP guidance and no citations, whatever body has
\* been read; the score elements keep what they showed.
C7_HttpErrorFirst ==
  [][\A i \in 1..Len(checks) :
       (/\ checks[i].pc = "body"
        /\ ~ResOk(checks[i].res)
        /\ Resolves(i)
        /\ ~CheckBodyError(i)) =>
         LET code == ToString(checks[i].res.status)
         IN /\ Status' = "error"
            /\ els'.apiStatusText = "API error (" \o code \o ")"
            /\ els'.resultTitle = "Error"
            /\ els'.resultBadge = "HTTP " \o code
            /\ els'.whyList.items[1] = "Backend returned HTTP " \o code \o "."
            /\ Len(els'.whyList.items) = 2
            /\ els'.citationsBox = NoneBox
            /\ els'.scoreBar = els.scoreBar
            /\ els'.scorePct = els.scorePct
            /\ els'.debugBox.kind = "text"]_vars

\* HTTP 500 with a body that is a usable payload
C7_Witness ==
  /\ els.apiStatusText = "API error (500)"
  /\ els.resultBadge = "HTTP 500"
  /\ els.debugBox =
       TextBox("[HTTP 500] Internal Server Error\n\nRAW:\n" \o BodyFull)

BadJsonTag == "[BAD JSON]\n"

\* the bodies that are no JSON, or JSON with a truthy error marker
UnusableBodies ==
  {raw \in Bodies :
     JSONParse(raw).threw \/ Truthy(OptGet(JSONParse(raw).value, "error"))}

\* C8: a check whose response has a successful status and a body that is
\* no JSON, or JSON with a truthy error marker, ends in the error state
\* "Bad response" with no verdict and no citations, and the debug text is
\* the tag followed by at most 2000 characters (of the raw text where the
\* body is no JSON).
C8_BadPayload ==
  [][\A i \in 1..Len(checks) : \A raw \in UnusableBodies :
       (/\ checks[i].pc = "body"
        /\ ResOk(checks[i].res)
        /\ CheckBody(i, raw)) =>
         /\ Status' = "error"
         /\ els'.apiStatusText = "Bad response"
         /\ els'.resultTitle = "Error"
         /\ els'.resultBadge = "Bad response"
         /\ els'.citationsBox = NoneBox
         /\ els'.scoreBar = els.scoreBar
         /\ els'.scorePct = els.scorePct
         /\ els'.debugBox.kind = "text"
         /\ Len(els'.debugBox.text) <= Len(BadJsonTag) + RAW_SLICE
         /\ JSONParse(raw).threw =>
              els'.debugBox.text
                = BadJsonTag \o SubSeq(raw, 1, Min(Len(raw), RAW_SLICE))]_vars

\* a body that is no JSON and longer than the slice
C8_Witness ==
  /\ els.apiStatusText = "Bad response"
  /\ els.debugBox = TextBox(BadJsonTag \o Repeat("x", RAW_SLICE))

\* C9: "Request timed out" is shown exactly when the timer of the check
\* fired, and "Failed to fetch" exactly when its connection failed.
C9_FailuresToldApart ==
  [][/\ \A i \in 1..Len(checks) :
          CheckTimeout(i) => els'.apiStatusText = "Request timed out"
     /\ \A i \in 1..Len(checks) :
          (CheckNetworkError(i) \/ CheckBodyError(i))
            => els'.apiStatusText = "Failed to fetch"
     /\ (CheckResolves /\ els'.apiStatusText = "Request timed out")
          => \E i \in 1..Len(checks) : CheckTimeout(i)
     /\ (CheckResolves /\ els'.apiStatusText = "Failed to fetch")
          => \E i \in 1..Len(checks) :
               CheckNetworkError(i) \/ CheckBodyError(i)]_vars

\* C10 as stated: in the error state the title is "Error", the badge holds
\* a diagnostic and the citation area shows "None".
C10_ErrorShowsErrorResult ==
  Status = "error" =>
    /\ els.resultTitle = "Error"
    /\ els.resultBadge # ""
    /\ els.citationsBox = NoneBox

\* the status texts a failed check writes
IsCheckFailureText(t) ==
  \/ t \in {"Bad response", "Request timed out", "Failed to fetch"}
  \/ \E r \in Responses : t = "API error (" \o ToString(r.status) \o ")"

\* C10 as amended: in the error state with the status text of a failed
\* check the title is "Error", the badge holds the diagnostic and the
\* citation area shows "None"; the refusal of a blank claim and the probe
\* write the status alone and leave the result area as it was.
C10_CheckErrorShowsErrorResult ==
  /\ [](Status = "error" /\ IsCheckFailureText(els.apiStatusText) =>
          /\ els.resultTitle = "Error"
          /\ els.resultBadge # ""
          /\ els.citationsBox = NoneBox)
  /\ [][(PingResolves \/ (Trim(els.claimInput) = "" /\ ClickCheck))
          => ResultArea' = ResultArea]_vars

\* a check has timed out
C10_Witness ==
  /\ Status = "error"
  /\ els.apiStatusText = "Request timed out"
  /\ els.resultBadge = "Request timed out"
  /\ els.resultTitle = "Error"

\* the page shows the complete result of a successful check: the debug
\* panel holds the trace of the request and of the payload received
ShowsResult == els.debugBox.kind = "json"

\* the payload of the result shown
Received == els.debugBox.received

\* the texts of the integers from 0 to 100 followed by the percent sign
PctTexts == {ToString(k) \o "%" : k \in 0..100}

\* C11: where the result of a successful check is shown, the score text and
\* the width of the score bar are one of 0% .. 100%.
C11_ScoreShownInRange ==
  ShowsResult =>
    /\ els.scorePct \in PctTexts
    /\ els.scoreBar = els.scorePct

Has(data, k) == data.t = "object" /\ k \in DOMAIN data.o

\* the payload is an object with a score that is a number, and neither a
\* verdict nor a badge
ScoreAlone(data) ==
  /\ Has(data, "score") /\ data.o.score.t = "number"
  /\ ~Has(data, "verdict") /\ ~Has(data, "badge")

\* the tiers of the specification, highest first
Tiers ==
  <<[label |-> "Likely true", badge |-> "Strong support"],
    [label |-> "Mixed / uncertain", badge |-> "Some support"],
    [label |-> "Unclear", badge |-> "Weak support"],
    [label |-> "Unclear / likely false", badge |-> "Low support"]>>

\* a score of n fixed-point steps lies in tier k
InTier(k, n) ==
  CASE k = 1 -> n >= 85 * ScoreScale
    [] k = 2 -> n >= 65 * ScoreScale /\ n < 85 * ScoreScale
    [] k = 3 -> n >= 40 * ScoreScale /\ n < 65 * ScoreScale
    [] k = 4 -> n < 40 * ScoreScale

\* C12: where the result of a payload without a verdict is shown, its score
\* lies in exactly one tier, and the title and the badge are the label and
\* the badge of that tier.
C12_VerdictByThresholds ==
  (ShowsResult /\ ScoreAlone(Received)) =>
    LET n == Received.o.score.n
    IN /\ Cardinality({k \in 1..4 : InTier(k, n)}) = 1
       /\ \A k \in 1..4 :
            InTier(k, n) => /\ els.resultTitle = Tiers[k].label
                            /\ els.resultBadge = Tiers[k].badge

\* a score at the lower bound of the highest tier
C12_Witness ==
  /\ ShowsResult /\ ScoreAlone(Received)
  /\ Received.o.score = Whole(85)
  /\ els.resultTitle = "Likely true"
  /\ els.resultBadge = "Strong support"

NoEvidenceHint == "No evidence links provided -- add 1-2 credible sources."

ShortClaimHint == "Claim is short -- add who/what/when/where details."

MinimalModeHint == "No explanation returned -- backend may be in minimal mode."

AnyHint == {NoEvidenceHint, ShortClaimHint, MinimalModeHint}

\* the request of the result shown: the trimmed claim and the evidence list
Sent == els.debugBox.sent

\* the payload carries an explanation list that is not empty
ServiceList(data) ==
  Has(data, "why") /\ data.o.why.t = "array" /\ data.o.why.a # <<>>

\* C13: where the result of a payload without a (non-empty) explanation list
\* is shown, the explanations are the no-evidence hint iff the request had
\* no evidence link, then the short-claim hint iff its claim has fewer than
\* 12 characters, and the generic hint alone iff neither applies; where the
\* payload has a non-empty list, one item per element of it is shown and no
\* hint.
C13_FallbackHints ==
  ShowsResult =>
    LET items == els.whyList.items
        noEvidence == Sent.evidenceUrls = <<>>
        short == Len(Sent.claim) < 12
    IN IF ServiceList(Received)
       THEN /\ Len(items) = Len(Received.o.why.a)
            /\ \A k \in 1..Len(items) : items[k] \notin AnyHint
       ELSE /\ items # <<>>
            /\ items =
                 IF noEvidence /\ short THEN <<NoEvidenceHint, ShortClaimHint>>
                 ELSE IF noEvidence THEN <<NoEvidenceHint>>
                 ELSE IF short THEN <<ShortClaimHint>>
                 ELSE <<MinimalModeHint>>

\* a claim of exactly 12 characters sent without evidence
C13_Witness ==
  /\ ShowsResult /\ ~ServiceList(Received)
  /\ Len(Sent.claim) = 12 /\ Sent.evidenceUrls = <<>>
  /\ els.whyList.items = <<NoEvidenceHint>>

\* the character of text at position p
CharAt(text, p) == SubSeq(text, p, p)

\* an http(s):// token starts at position p of text: the scheme, in either
\* case, followed by a character that is no white space
TokenStart(text, p) ==
  \E sch \in {<<"http://", "HTTP://">>, <<"https://", "HTTPS://">>} :
    LET k == Len(sch[1])
    IN /\ p + k <= Len(text)
       /\ StartsWithCI(SubSeq(text, p, p + k - 1), sch[1], sch[2])
       /\ ~IsSpace(CharAt(text, p + k))

\* the token that starts at p runs up to the next white space
TokenEnd(text, p) ==
  CHOOSE q \in p..Len(text) :
    /\ \A r \in p..q : ~IsSpace(CharAt(text, r))
    /\ q = Len(text) \/ IsSpace(CharAt(text, q + 1))

Token(text, p) == SubSeq(text, p, TokenEnd(text, p))

\* the starts of the first token of each line
FirstStarts(text) ==
  LET starts == {p \in 1..Len(text) : TokenStart(text, p)}
      breaks == {r \in 1..Len(text) : CharAt(text, r) = "\n"}
  IN {p \in starts :
        \A p2 \in starts : p2 < p => \E r \in breaks : p2 < r /\ r < p}

\* urls is what the specification asks of the extractor on text
Extracted(text, urls) ==
  LET first == FirstStarts(text)
      at(u) == CHOOSE p \in first :
                 /\ Token(text, p) = u
                 /\ \A p2 \in first : Token(text, p2) = u => p <= p2
  IN /\ \A a, b \in 1..Len(urls) : a # b => urls[a] # urls[b]
     /\ {urls[a] : a \in 1..Len(urls)} = {Token(text, p) : p \in first}
     /\ \A a, b \in 1..Len(urls) : a < b => at(urls[a]) < at(urls[b])
     /\ text = "" => urls = <<>>

\* C14: the evidence list of a request holds the first http(s):// token of
\* each line of the evidence text that has one, without duplicates and in
\* the order of first occurrence; a line without a token adds nothing and
\* the empty text gives the empty list.
C14_ExtractUrls ==
  [][Len(checks') = Len(checks) + 1 =>
       Extracted(els.evidenceInput, checks'[Len(checks')].evidenceUrls)]_vars

\* the example of the specification, with a duplicate and a line without
\* a link
C14_Witness ==
  /\ els.evidenceInput
       = "see https://a.example/x\nno link here\nhttps://a.example/x again"
  /\ \E i \in 1..Len(checks) :
       checks[i].evidenceUrls = <<"https://a.example/x">>

\* the texts embedded into the markup of the citation area
CitationTexts ==
  IF els.citationsBox.kind # "citations" THEN {}
  ELSE UNION {{c.title, c.url, c.snippet, c.host} :
                c \in {els.citationsBox.items[k] :
                         k \in 1..Len(els.citationsBox.items)}}

\* C15: where the result of a successful check is shown, no explanation
\* item and no title, url, snippet or host of a citation embedded into the
\* markup holds the character "<".
C15_NoRawLt ==
  ShowsResult =>
    /\ \A k \in 1..Len(els.whyList.items) : ~Contains(els.whyList.items[k], "<")
    /\ \A t \in CitationTexts : ~Contains(t, "<")

\* a payload with markup in its explanation and in every field of a
\* citation, and with a url whose host part holds "<"
C15_Witness ==
  /\ ShowsResult
  /\ Received = JSONParse(BodyMarkup).value
  /\ els.whyList.items = <<"&lt;img src=x>">>
  /\ els.citationsBox.items[1].title = "&lt;i>T"
  /\ els.citationsBox.items[1].url = "https://a.example/&lt;x"
  /\ els.citationsBox.items[1].snippet = "&lt;s>"
  /\ els.citationsBox.items[2].url = "https://a&lt;b.example/"
  /\ els.citationsBox.items[2].host = ""

\* C16: a request whose fetchWithTimeout call has settled, by a response,
\* a network failure or the abort, has no pending timer; and the abort
\* fires only for a request whose fetch is still awaited.
C16_TimerCleared ==
  /\ [](/\ \A i \in 1..Len(checks) : checks[i].pc # "fetch" => ~checks[i].timer
        /\ ping.pc # "fetch" => ~ping.timer)
  /\ [][/\ \A i \in 1..Len(checks) : CheckTimeout(i) => checks[i].pc = "fetch"
        /\ PingTimeout => ping.pc = "fetch"]_vars

\* one request has been aborted by its timer, and another, whose response
\* arrived in time, reads its body past the deadline without a timer
C16_Witness ==
  /\ els.apiStatusText = "Request timed out"
  /\ \E i, j \in 1..Len(checks) :
       /\ checks[i] = Done
       /\ checks[j].pc = "body"
       /\ checks[j].elapsed >= FETCH_TIMEOUT_MS
       /\ ~checks[j].timer

\* C17: the probe is pending when boot() returns and, once resolved, is
\* never issued again; it resolves to ok exactly when its response has a
\* successful status, and to error on every other status, on a network
\* error and on its timeout, with the diagnostic in the debug panel; its
\* resolution touches neither the result area nor the check requests.
C17_ProbeOnce ==
  /\ ping = Request("", <<>>)
  /\ [][/\ ~Pending(ping) => ~Pending(ping')
        /\ ping.pc = "body" => ping'.pc # "fetch"
        /\ PingResolves =>
             /\ checks' = checks
             /\ ResultArea' = ResultArea
             /\ IF ping.pc = "body" /\ ping.res.status \in 200..299
                THEN /\ Status' = "ok"
                     /\ els'.debugBox = els.debugBox
                ELSE /\ Status' = "error"
                     /\ els'.debugBox.kind = "text"
                     /\ IF ping.pc = "body"
                        THEN /\ els'.apiStatusText
                                  = "API: unreachable ("
                                      \o ToString(ping.res.status) \o ")"
                             /\ \E text \in PingTexts \cup {""} :
                                  els'.debugBox.text
                                    = "[PING] " \o ToString(ping.res.status)
                                        \o "\n" \o text
                        ELSE /\ els'.apiStatusText = "API: unreachable"
                             /\ els'.debugBox.text
                                  \in {"[PING ERROR]\nTypeError: Failed to fetch",
                                       "[PING ERROR]\nAbortError: The user aborted a request."}
        /\ PingTimeout =>
             els'.debugBox.text
               = "[PING ERROR]\nAbortError: The user aborted a request."]_vars

\* the probe was answered with HTTP 500 and has resolved
C17_Witness ==
  /\ ping = Done
  /\ Status = "error"
  /\ els.apiStatusText = "API: unreachable (500)"
  /\ els.debugBox = TextBox("[PING] 500\n<html>oops</html>")

\* the payload carries the field k with a text that is not empty
Provides(data, k) == Has(data, k) /\ data.o[k].t = "string" /\ data.o[k].s # ""

\* C18: where the result of a successful check is shown, a verdict the
\* payload provides is the title and a badge the payload provides is the
\* badge, each whether or not the other is provided.
C18_ServiceVerdictAndBadge ==
  ShowsResult =>
    /\ Provides(Received, "verdict") => els.resultTitle = Received.o.verdict.s
    /\ Provides(Received, "badge") => els.resultBadge = Received.o.badge.s

\* the body parses as JSON and carries no truthy error marker
Usable(raw) ==
  /\ ~JSONParse(raw).threw
  /\ ~Truthy(OptGet(JSONParse(raw).value, "error"))

\* C19: a check that resolves with a successful status and a body that
\* parses as JSON without a truthy error marker ends in the ok state with
\* its result shown, and not in "Failed to fetch" or "Request timed out".
C19_UsablePayloadEndsOk ==
  [][\A i \in 1..Len(checks) : \A raw \in Bodies :
       (/\ checks[i].pc = "body"
        /\ ResOk(checks[i].res)
        /\ Usable(raw)
        /\ CheckBody(i, raw)) =>
         /\ Status' = "ok"
         /\ els'.debugBox.kind = "json"
         /\ els'.debugBox.received = JSONParse(raw).value
         /\ els'.apiStatusText \notin {"Failed to fetch", "Request timed out"}]_vars

\* C20: where the result of a payload with a score and no verdict is
\* shown, the title is the tier of the percentage displayed: "Likely true"
\* iff it is at least 85, "Mixed / uncertain" iff it is from 65 to 84,
\* "Unclear" iff it is from 40 to 64, "Unclear / likely false" iff it is
\* below 40.
C20_TierAgreesWithPct ==
  (ShowsResult /\ ScoreAlone(Received)) =>
    \E k \in 0..100 :
      /\ els.scorePct = ToString(k) \o "%"
      /\ els.resultTitle = "Likely true" <=> k >= 85
      /\ els.resultTitle = "Mixed / uncertain" <=> (k >= 65 /\ k <= 84)
      /\ els.resultTitle = "Unclear" <=> (k >= 40 /\ k <= 64)
      /\ els.resultTitle = "Unclear / likely false" <=> k < 40

====
